---- MODULE Spec2Model ----
(***************************************************************************)
(* Moderation serializers of misago/threads/serializers/moderation.py.    *)
(*                                                                         *)
(* One serializer instance is constructed with its context (user, thread,  *)
(* viewmodel) and the request payload; each validate_* handler is one      *)
(* action that computes the handler's whole outcome.  The database rows    *)
(* and the outcomes of the permission predicates are the environment: the  *)
(* initial state draws them from bounded sets.                             *)
(***************************************************************************)
EXTENDS Integers, Sequences, FiniteSets, TLC

VARIABLES
    POSTS_LIMIT,    \* module constant computed from settings at import
    THREADS_LIMIT,  \* module constant computed from settings at import
    serializer,     \* the serializer class that was instantiated
    data,           \* the list of ids handed to validate_posts / validate_threads
    link,           \* the link handed to validate_new_thread / validate_other_thread
    thread,         \* context['thread']: the current thread
    posts,          \* thread.post_set rows and what allow_* says of each
    threads,        \* Thread rows and what viewmodel / allow_* say of each
    conflict_valid, \* whether MergeConflict.is_valid accepts the payload
    field,          \* outcome of the field-level validator that runs before validate()
    result          \* outcome of the handler

vars == <<POSTS_LIMIT, THREADS_LIMIT, serializer, data, link, thread, posts, threads,
          conflict_valid, field, result>>

(***************************************************************************)
(* Bounds of the model.                                                    *)
(***************************************************************************)
MaxId == 3
ConfiguredLimit == 2

Ids == 1..MaxId

\* Python None for nullable integers (poster_id, an id that no link holds)
None == -1

(***************************************************************************)
(* Generic helpers.                                                        *)
(***************************************************************************)
Range(s) == {s[i] : i \in DOMAIN s}

RECURSIVE Ascending(_)
Ascending(S) ==
    IF S = {} THEN <<>>
    ELSE LET m == CHOOSE x \in S : \A y \in S : x <= y
         IN  <<m>> \o Ascending(S \ {m})

RECURSIVE Descending(_)
Descending(S) ==
    IF S = {} THEN <<>>
    ELSE LET m == CHOOSE x \in S : \A y \in S : x >= y
         IN  <<m>> \o Descending(S \ {m})

\* the sequence without its element at index i
RemoveAt(s, i) == SubSeq(s, 1, i - 1) \o SubSeq(s, i + 1, Len(s))

\* sorted(data, reverse=True): a list keeps its repeated elements
RECURSIVE SortedReverse(_)
SortedReverse(s) ==
    IF s = <<>> THEN <<>>
    ELSE LET i == CHOOSE k \in DOMAIN s : \A j \in DOMAIN s : s[k] >= s[j]
         IN  <<s[i]>> \o SortedReverse(RemoveAt(s, i))

(***************************************************************************)
(* Outcomes.  A handler either returns a value (a list of entity ids) or   *)
(* raises; calls is the log of collaborator calls it made, in order.       *)
(***************************************************************************)
NoError == [cls |-> "", code |-> "", items |-> <<>>]

Pending == [status |-> "pending", error |-> NoError, value |-> <<>>,
            calls |-> <<>>, resolver |-> FALSE]

Returns(value, calls) ==
    [status |-> "ok", error |-> NoError, value |-> value,
     calls |-> calls, resolver |-> FALSE]

Raises(cls, code, items, calls) ==
    [status |-> "error", error |-> [cls |-> cls, code |-> code, items |-> items],
     value |-> <<>>, calls |-> calls, resolver |-> FALSE]

Item(id, title, status, reason) ==
    [id |-> id, title |-> title, status |-> status, reason |-> reason]

Call(fn, id) == <<fn, id>>

(***************************************************************************)
(* Decisions shared by the batch validators.                               *)
(***************************************************************************)
\* mutant of LimitExceeded: the comparison is off by one
LimitExceeded_OffByOne(n, limit) == n > limit + 1

\* if len(data) > LIMIT
LimitExceeded(n, limit) == n > limit

\* mutant of CountMismatch: only a surplus of entities is noticed
CountMismatch_SurplusOnly(accepted, n) == Len(accepted) > n

\* if len(posts) != len(data)
CountMismatch(accepted, n) == Len(accepted) # n

\* exclude_invisible_posts(...).filter(id__in=data).order_by('id')
PostsQueryset(ids) == Ascending({i \in Ids : i \in ids /\ posts[i].visible})

Denies(post_id, check) == check \in posts[post_id].denies

(***************************************************************************)
(* DeletePostsSerializer.validate_posts                                    *)
(***************************************************************************)
\* mutant of DeletePostChecks: allow_delete_best_answer is left out
DeletePostChecks_NoBestAnswer(p) ==
    IF posts[p].is_event
    THEN <<"allow_delete_event">>
    ELSE <<"allow_delete_post">>

\* the permission checks the loop runs on one post, in order
DeletePostChecks(p) ==
    IF posts[p].is_event
    THEN <<"allow_delete_event">>
    ELSE <<"allow_delete_best_answer", "allow_delete_post">>

\* runs the checks in order; the first that raises ends the run
RECURSIVE RunChecks(_, _, _)
RunChecks(p, checks, calls) ==
    IF checks = <<>> THEN [denied |-> "", calls |-> calls]
    ELSE LET c == Head(checks)
             logged == Append(calls, Call(c, p))
         IN  IF Denies(p, c)
             THEN [denied |-> c, calls |-> logged]
             ELSE RunChecks(p, Tail(checks), logged)

RECURSIVE DeletePostsLoop(_, _, _, _)
DeletePostsLoop(queryset, accepted, calls, n) ==
    IF queryset = <<>>
    THEN IF CountMismatch(accepted, n)
         THEN Raises("PermissionDenied", "not_found", <<>>, calls)
         ELSE Returns(accepted, calls)
    ELSE LET p == Head(queryset)
             r == RunChecks(p, DeletePostChecks(p), calls)
         IN  IF r.denied # ""
             THEN Raises("PermissionDenied", "denied",
                         <<Item(p, 0, 0, r.denied)>>, r.calls)
             ELSE DeletePostsLoop(Tail(queryset), Append(accepted, p), r.calls, n)

DeletePostsValidatePosts(d) ==
    IF d = <<>> THEN Raises("ValidationError", "empty", <<>>, <<>>)
    ELSE IF LimitExceeded(Len(d), POSTS_LIMIT)
    THEN Raises("ValidationError", "limit", <<>>, <<>>)
    ELSE DeletePostsLoop(PostsQueryset(Range(d)), <<>>,
                         <<Call("exclude_invisible_posts", 0)>>, Len(d))

(***************************************************************************)
(* MergePostsSerializer.validate_posts                                     *)
(***************************************************************************)
\* mutant of AuthorshipDiffers: the names of anonymous posters are not compared
AuthorshipDiffers_IdsOnly(first, post) ==
    posts[post].poster_id # posts[first].poster_id

\* post.poster_id != posts[0].poster_id, or both null and the names differ
AuthorshipDiffers(first, post) ==
    \/ posts[post].poster_id # posts[first].poster_id
    \/ /\ posts[post].poster_id = None
       /\ posts[first].poster_id = None
       /\ posts[post].poster_name # posts[first].poster_name

\* posts[0].is_first_post and post.is_best_answer
BestAnswerWithFirstPost(first, post) ==
    posts[first].is_first_post /\ posts[post].is_best_answer

\* if not posts[0].is_first_post: is_hidden or is_unapproved differ
VisibilityDiffers(first, post) ==
    /\ ~posts[first].is_first_post
    /\ \/ posts[first].is_hidden # posts[post].is_hidden
       \/ posts[first].is_unapproved # posts[post].is_unapproved

RECURSIVE MergePostsLoop(_, _, _, _)
MergePostsLoop(queryset, accepted, calls, n) ==
    IF queryset = <<>>
    THEN IF CountMismatch(accepted, n)
         THEN Raises("ValidationError", "not_found", <<>>, calls)
         ELSE Returns(accepted, calls)
    ELSE LET p == Head(queryset)
             logged == Append(calls, Call("allow_merge_post", p))
         IN  IF Denies(p, "allow_merge_post")
             THEN Raises("ValidationError", "denied",
                         <<Item(p, 0, 0, "allow_merge_post")>>, logged)
             ELSE IF accepted = <<>>
             THEN MergePostsLoop(Tail(queryset), <<p>>, logged, n)
             ELSE IF AuthorshipDiffers(accepted[1], p)
             THEN Raises("ValidationError", "authorship", <<>>, logged)
             ELSE IF BestAnswerWithFirstPost(accepted[1], p)
             THEN Raises("ValidationError", "best_answer_first_post", <<>>, logged)
             ELSE IF VisibilityDiffers(accepted[1], p)
             THEN Raises("ValidationError", "visibility", <<>>, logged)
             ELSE MergePostsLoop(Tail(queryset), Append(accepted, p), logged, n)

MergePostsValidatePosts(d) ==
    LET unique == Range(d)      \* data = list(set(data))
        n == Cardinality(unique)
    IN  IF n < 2 THEN Raises("ValidationError", "empty", <<>>, <<>>)
        ELSE IF LimitExceeded(n, POSTS_LIMIT)
        THEN Raises("ValidationError", "limit", <<>>, <<>>)
        ELSE MergePostsLoop(PostsQueryset(unique), <<>>,
                            <<Call("exclude_invisible_posts", 0)>>, n)

(***************************************************************************)
(* MovePostsSerializer.validate_posts, SplitPostsSerializer.validate_posts *)
(***************************************************************************)
\* the loop both share: one allow_* check per post, a denial re-raised as
\* ValidationError
RECURSIVE SingleCheckLoop(_, _, _, _, _)
SingleCheckLoop(check, queryset, accepted, calls, n) ==
    IF queryset = <<>>
    THEN IF CountMismatch(accepted, n)
         THEN Raises("ValidationError", "not_found", <<>>, calls)
         ELSE Returns(accepted, calls)
    ELSE LET p == Head(queryset)
             logged == Append(calls, Call(check, p))
         IN  IF Denies(p, check)
             THEN Raises("ValidationError", "denied",
                         <<Item(p, 0, 0, check)>>, logged)
             ELSE SingleCheckLoop(check, Tail(queryset), Append(accepted, p),
                                  logged, n)

MovePostsValidatePosts(d) ==
    LET unique == Range(d)      \* data = list(set(data))
        n == Cardinality(unique)
    IN  IF d = <<>> THEN Raises("ValidationError", "empty", <<>>, <<>>)
        ELSE IF LimitExceeded(n, POSTS_LIMIT)
        THEN Raises("ValidationError", "limit", <<>>, <<>>)
        ELSE SingleCheckLoop("allow_move_post", PostsQueryset(unique), <<>>,
                             <<Call("exclude_invisible_posts", 0)>>, n)

SplitPostsValidatePosts(d) ==
    IF d = <<>> THEN Raises("ValidationError", "empty", <<>>, <<>>)
    ELSE IF LimitExceeded(Len(d), POSTS_LIMIT)
    THEN Raises("ValidationError", "limit", <<>>, <<>>)
    ELSE SingleCheckLoop("allow_split_post", PostsQueryset(Range(d)), <<>>,
                         <<Call("exclude_invisible_posts", 0)>>, Len(d))

(***************************************************************************)
(* Threads as the viewmodel and the Thread queryset see them.              *)
(***************************************************************************)
ThreadStates == {"missing", "other_tree", "invisible", "visible"}

\* viewmodel(request, id).unwrap(): the thread, or Http404
Loadable(t) == threads[t].state = "visible"

ThreadDenies(t, check) == check \in threads[t].denies

(***************************************************************************)
(* DeleteThreadsSerializer.validate_threads                                *)
(***************************************************************************)
RECURSIVE DeleteThreadsLoop(_, _, _, _, _)
DeleteThreadsLoop(sorted_ids, accepted, errors, calls, n) ==
    IF sorted_ids = <<>>
    THEN IF errors # <<>>
         THEN Raises("ValidationError", "details", errors, calls)
         ELSE IF CountMismatch(accepted, n)
         THEN Raises("ValidationError", "not_found", <<>>, calls)
         ELSE Returns(accepted, calls)
    ELSE LET t == Head(sorted_ids)
             loaded == Append(calls, Call("viewmodel", t))
             checked == Append(loaded, Call("allow_delete_thread", t))
         IN  IF ~Loadable(t)     \* except Http404: pass
             THEN DeleteThreadsLoop(Tail(sorted_ids), accepted, errors, loaded, n)
             ELSE IF ThreadDenies(t, "allow_delete_thread")
             THEN DeleteThreadsLoop(Tail(sorted_ids), accepted,
                      Append(errors, Item(threads[t].id, threads[t].title, 0,
                                          "allow_delete_thread")),
                      checked, n)
             ELSE DeleteThreadsLoop(Tail(sorted_ids), Append(accepted, t),
                                    errors, checked, n)

DeleteThreadsValidateThreads(d) ==
    IF d = <<>> THEN Raises("ValidationError", "empty", <<>>, <<>>)
    ELSE IF LimitExceeded(Len(d), THREADS_LIMIT)
    THEN Raises("ValidationError", "limit", <<>>, <<>>)
    ELSE DeleteThreadsLoop(SortedReverse(d), <<>>, <<>>, <<>>, Len(d))

(***************************************************************************)
(* MergeThreadsSerializer                                                  *)
(***************************************************************************)
\* the threads field (min_length=2) and validate_threads
MergeThreadsValidateThreads(d) ==
    IF Len(d) < 2 THEN Raises("ValidationError", "empty", <<>>, <<>>)
    ELSE IF LimitExceeded(Len(d), THREADS_LIMIT)
    THEN Raises("ValidationError", "limit", <<>>, <<>>)
    ELSE Returns(d, <<>>)

\* Thread.objects.filter(id__in=..., category__tree_id=...).order_by('-id')
ThreadsQueryset(ids) ==
    Descending({t \in Ids : t \in ids /\ threads[t].state \in {"invisible", "visible"}})

\* the loop over the queryset: [valid_threads, invalid_threads, calls]
RECURSIVE ScreenThreads(_, _, _, _)
ScreenThreads(queryset, valid, invalid, calls) ==
    IF queryset = <<>>
    THEN [valid |-> valid, invalid |-> invalid, calls |-> calls]
    ELSE LET t == Head(queryset)
             seen == Append(calls, Call("can_see_thread", t))
             checked == Append(seen, Call("allow_merge_thread", t))
         IN  IF ~(threads[t].state = "visible")
             THEN ScreenThreads(Tail(queryset), valid, invalid, seen)
             ELSE IF ThreadDenies(t, "allow_merge_thread")
             THEN ScreenThreads(Tail(queryset), Append(valid, t),
                      Append(invalid, Item(threads[t].id, 0, 403,
                                           "allow_merge_thread")),
                      checked)
             ELSE ScreenThreads(Tail(queryset), Append(valid, t), invalid, checked)

\* mutant of NotFoundIds: the threads allow_merge_thread denied count as missing
NotFoundIds_DeniedToo(ids, valid) ==
    ids \ {threads[valid[i]].id : i \in {j \in DOMAIN valid :
                  ~ThreadDenies(valid[j], "allow_merge_thread")}}

\* set(threads_ids) - set([t.id for t in valid_threads])
NotFoundIds(ids, valid) == ids \ {threads[valid[i]].id : i \in DOMAIN valid}

\* the 404 entries; a set is iterated in an order the code does not fix, and the
\* sort that follows makes the order irrelevant
NotFoundItems(not_found) ==
    LET order == Ascending(not_found)
    IN  [i \in DOMAIN order |-> Item(order[i], 0, 404, "not_found")]

\* invalid_threads.sort(key=lambda item: item['id']): a stable sort
RECURSIVE SortById(_)
SortById(items) ==
    IF items = <<>> THEN <<>>
    ELSE LET i == CHOOSE k \in DOMAIN items :
                    /\ \A j \in DOMAIN items : items[k].id <= items[j].id
                    /\ \A j \in 1..(k - 1) : items[j].id # items[k].id
         IN  <<items[i]>> \o SortById(RemoveAt(items, i))

GetValidThreads(threads_ids) ==
    LET ids == Range(threads_ids)
        s == ScreenThreads(ThreadsQueryset(ids), <<>>, <<>>, <<Call("Thread.objects", 0)>>)
        invalid == s.invalid \o NotFoundItems(NotFoundIds(ids, s.valid))
    IN  IF invalid # <<>>
        THEN Raises("ValidationError", "merge", SortById(invalid), s.calls)
        ELSE Returns(s.valid, s.calls)

\* validate(): get_valid_threads, then the merge-conflict resolver
MergeThreadsValidate(d) ==
    LET screened == GetValidThreads(d)
    IN  IF screened.status = "error" THEN screened
        ELSE IF ~conflict_valid
        THEN [Raises("ValidationError", "merge_conflict", <<>>,
                     Append(screened.calls, Call("MergeConflict", 0)))
                EXCEPT !.resolver = TRUE]
        ELSE [Returns(screened.value,
                      Append(screened.calls, Call("MergeConflict", 0)))
                EXCEPT !.resolver = TRUE]

(***************************************************************************)
(* Reference resolution                                                    *)
(***************************************************************************)
\* get_thread_id_from_url(request, data): the id the link holds, or None.
\* A link is modelled by what can be extracted from it.
GetThreadIdFromUrl(url) == IF url = <<>> THEN None ELSE url[1]

\* Python truth value of an optional integer: `not x`
Falsy(x) == x = None \/ x = 0

\* mutant of SameThread: the self-reference is never noticed
SameThread_Never(id, current) == FALSE

\* new_thread_id == thread.pk
SameThread(id, current) == id = current.pk

\* MovePostsSerializer.validate_new_thread
MovePostsValidateNewThread(url) ==
    LET new_thread_id == GetThreadIdFromUrl(url)
        loaded == <<Call("viewmodel", new_thread_id)>>
    IN  IF Falsy(new_thread_id)
        THEN Raises("ValidationError", "invalid_link", <<>>, <<>>)
        ELSE IF SameThread(new_thread_id, thread)
        THEN Raises("ValidationError", "same_thread", <<>>, <<>>)
        ELSE IF ~(new_thread_id \in Ids /\ Loadable(new_thread_id))
        THEN Raises("ValidationError", "not_exist", <<>>, loaded)
        ELSE IF ~threads[new_thread_id].can_reply
        THEN Raises("ValidationError", "cant_reply", <<>>, loaded)
        ELSE Returns(<<new_thread_id>>, loaded)

\* MergeThreadSerializer.validate_other_thread
MergeThreadValidateOtherThread(url) ==
    LET other_thread_id == GetThreadIdFromUrl(url)
        loaded == <<Call("viewmodel", other_thread_id)>>
        merged == Append(loaded, Call("allow_merge_thread", other_thread_id))
        replied == Append(merged, Call("can_reply_thread", other_thread_id))
    IN  IF Falsy(other_thread_id)
        THEN Raises("ValidationError", "invalid_link", <<>>, <<>>)
        ELSE IF SameThread(other_thread_id, thread)
        THEN Raises("ValidationError", "same_thread", <<>>, <<>>)
        ELSE IF ~(other_thread_id \in Ids /\ Loadable(other_thread_id))
        THEN Raises("ValidationError", "not_exist", <<>>, loaded)
        ELSE IF ThreadDenies(other_thread_id, "allow_merge_thread")
        THEN Raises("ValidationError", "denied",
                    <<Item(other_thread_id, 0, 0, "allow_merge_thread")>>, merged)
        ELSE IF ~threads[other_thread_id].can_reply
        THEN Raises("ValidationError", "cant_reply", <<>>, replied)
        ELSE Returns(<<other_thread_id>>, replied)

(***************************************************************************)
(* The environment: requests, rows and permission outcomes.                *)
(***************************************************************************)
\* lists of at most n ids
RequestsUpTo(n) == UNION {[1..k -> Ids] : k \in 0..n}

BasePost ==
    [visible |-> TRUE, is_event |-> FALSE, poster_id |-> 1, poster_name |-> "a",
     is_hidden |-> FALSE, is_unapproved |-> FALSE, is_first_post |-> FALSE,
     is_best_answer |-> FALSE, denies |-> {}]

\* a post that does not exist in the thread or that the user may not see
AbsentPost == [BasePost EXCEPT !.visible = FALSE]

DeleteChecks == {"allow_delete_event", "allow_delete_best_answer", "allow_delete_post"}

\* what a requested post may look like to each serializer: the fields the
\* serializer reads vary
PostProfiles(s) ==
    {AbsentPost} \cup
    CASE s = "DeletePostsSerializer" ->
           {[BasePost EXCEPT !.is_event = e, !.denies = d] :
                e \in BOOLEAN, d \in SUBSET DeleteChecks}
      [] s = "MergePostsSerializer" ->
           {[BasePost EXCEPT !.poster_id = a, !.is_hidden = h, !.denies = d] :
                a \in {1, 2}, h \in BOOLEAN, d \in SUBSET {"allow_merge_post"}}
      [] s = "MovePostsSerializer" ->
           {[BasePost EXCEPT !.denies = d] : d \in SUBSET {"allow_move_post"}}
      [] s = "SplitPostsSerializer" ->
           {[BasePost EXCEPT !.denies = d] : d \in SUBSET {"allow_split_post"}}
      [] OTHER -> {BasePost}

\* rows other than the requested ones exist, are visible and deny nothing
PostWorlds(s, requested) ==
    {[i \in Ids |-> IF i \in requested THEN w[i] ELSE BasePost] :
        w \in [requested -> PostProfiles(s)]}

TitleOf(i) == 100 + i

ThreadRow(i, state, denies, can_reply) ==
    [id |-> i, title |-> TitleOf(i), state |-> state, denies |-> denies,
     can_reply |-> can_reply]

BaseThreads == [i \in Ids |-> ThreadRow(i, "visible", {}, TRUE)]

ThreadProfiles(s) ==
    CASE s = "DeleteThreadsSerializer" ->
           {[state |-> st, denies |-> {}, can_reply |-> TRUE] :
                st \in ThreadStates \ {"visible"}}
           \cup {[state |-> "visible", denies |-> d, can_reply |-> TRUE] :
                d \in SUBSET {"allow_delete_thread"}}
      [] s = "MergeThreadsSerializer" ->
           {[state |-> st, denies |-> {}, can_reply |-> TRUE] :
                st \in ThreadStates \ {"visible"}}
           \cup {[state |-> "visible", denies |-> d, can_reply |-> TRUE] :
                d \in SUBSET {"allow_merge_thread"}}
      [] s \in {"MovePostsSerializer", "MergeThreadSerializer"} ->
           {[state |-> st, denies |-> d, can_reply |-> r] :
                st \in ThreadStates, d \in SUBSET {"allow_merge_thread"},
                r \in BOOLEAN}
      [] OTHER -> {[state |-> "visible", denies |-> {}, can_reply |-> TRUE]}

ThreadWorlds(s, requested) ==
    {[i \in Ids |-> IF i \in requested
                    THEN ThreadRow(i, w[i].state, w[i].denies, w[i].can_reply)
                    ELSE BaseThreads[i]] :
        w \in [requested -> ThreadProfiles(s)]}

\* the posts of a merge request: every authorship and visibility combination
\* the merge rules tell apart, all visible and mergeable
MergeProfiles ==
    {[BasePost EXCEPT !.poster_id = a[1], !.poster_name = a[2],
                      !.is_hidden = v[1], !.is_unapproved = v[2]] :
        a \in {<<None, "a">>, <<None, "b">>, <<1, "a">>, <<1, "b">>, <<2, "a">>},
        v \in BOOLEAN \X BOOLEAN}

\* at most one post is the thread's first post, at most one its best answer,
\* and the first post is never the best answer (0: none of the requested)
MergeWorlds(requested) ==
    {[i \in Ids |-> IF i \in requested
                    THEN [w[i] EXCEPT !.is_first_post = (i = f[1]),
                                      !.is_best_answer = (i = f[2])]
                    ELSE BasePost] :
        w \in [requested -> MergeProfiles],
        f \in {g \in (requested \cup {0}) \X (requested \cup {0}) :
                  g[1] # g[2] \/ g[1] = 0}}

\* what can be extracted from a link: nothing, or an id
Links == {<<>>} \cup {<<i>> : i \in 0..MaxId}

PostSerializers ==
    {"DeletePostsSerializer", "MergePostsSerializer", "MovePostsSerializer",
     "SplitPostsSerializer"}

ThreadSerializers == {"DeleteThreadsSerializer", "MergeThreadsSerializer"}

(***************************************************************************)
(* Initial states.                                                         *)
(***************************************************************************)
\* a batch serializer with a list of at most one id more than its limit admits
Init ==
    /\ POSTS_LIMIT = ConfiguredLimit
    /\ THREADS_LIMIT = ConfiguredLimit + 1
    /\ serializer \in PostSerializers \cup ThreadSerializers
    /\ data \in RequestsUpTo(IF serializer \in PostSerializers
                             THEN POSTS_LIMIT + 1 ELSE THREADS_LIMIT + 1)
    /\ link = <<>>
    /\ thread = [pk |-> 1]
    /\ posts \in IF serializer \in PostSerializers
                 THEN PostWorlds(serializer, Range(data))
                 ELSE {[i \in Ids |-> BasePost]}
    /\ threads \in IF serializer \in ThreadSerializers
                   THEN ThreadWorlds(serializer, Range(data))
                   ELSE {BaseThreads}
    /\ conflict_valid \in IF serializer = "MergeThreadsSerializer"
                          THEN BOOLEAN ELSE {TRUE}
    /\ field = Pending
    /\ result = Pending

(***************************************************************************)
(* Actions: one per handler.                                               *)
(***************************************************************************)
Environment ==
    <<POSTS_LIMIT, THREADS_LIMIT, serializer, data, link, thread, posts, threads,
      conflict_valid>>

ValidateDeletePosts ==
    /\ serializer = "DeletePostsSerializer"
    /\ result.status = "pending"
    /\ result' = DeletePostsValidatePosts(data)
    /\ UNCHANGED <<Environment, field>>

ValidateMergePosts ==
    /\ serializer = "MergePostsSerializer"
    /\ result.status = "pending"
    /\ result' = MergePostsValidatePosts(data)
    /\ UNCHANGED <<Environment, field>>

ValidateMovePosts ==
    /\ serializer = "MovePostsSerializer"
    /\ result.status = "pending"
    /\ result' = MovePostsValidatePosts(data)
    /\ UNCHANGED <<Environment, field>>

ValidateSplitPosts ==
    /\ serializer = "SplitPostsSerializer"
    /\ result.status = "pending"
    /\ result' = SplitPostsValidatePosts(data)
    /\ UNCHANGED <<Environment, field>>

ValidateDeleteThreads ==
    /\ serializer = "DeleteThreadsSerializer"
    /\ result.status = "pending"
    /\ result' = DeleteThreadsValidateThreads(data)
    /\ UNCHANGED <<Environment, field>>

\* the threads field of MergeThreadsSerializer; a field error ends the run
ValidateMergeThreadsField ==
    /\ serializer = "MergeThreadsSerializer"
    /\ field.status = "pending"
    /\ field' = MergeThreadsValidateThreads(data)
    /\ result' = IF field'.status = "error" THEN field' ELSE result
    /\ UNCHANGED Environment

\* MergeThreadsSerializer.validate runs once the fields are valid
ValidateMergeThreads ==
    /\ serializer = "MergeThreadsSerializer"
    /\ field.status = "ok"
    /\ result.status = "pending"
    /\ result' = MergeThreadsValidate(field.value)
    /\ UNCHANGED <<Environment, field>>

ValidateNewThread ==
    /\ serializer = "MovePostsSerializer"
    /\ result.status = "pending"
    /\ result' = MovePostsValidateNewThread(link)
    /\ UNCHANGED <<Environment, field>>

ValidateOtherThread ==
    /\ serializer = "MergeThreadSerializer"
    /\ result.status = "pending"
    /\ result' = MergeThreadValidateOtherThread(link)
    /\ UNCHANGED <<Environment, field>>

Next ==
    \/ ValidateDeletePosts
    \/ ValidateMergePosts
    \/ ValidateMovePosts
    \/ ValidateSplitPosts
    \/ ValidateDeleteThreads
    \/ ValidateMergeThreadsField
    \/ ValidateMergeThreads

Spec == Init /\ [][Next]_vars

(***************************************************************************)
(* Merging posts under a limit that admits three posts, with every         *)
(* authorship / visibility / first-post / best-answer combination.         *)
(***************************************************************************)
MergeRequests ==
    {Ascending(S) : S \in {T \in SUBSET Ids : Cardinality(T) \in 2..(ConfiguredLimit + 1)}}

InitMerge ==
    /\ POSTS_LIMIT = ConfiguredLimit + 1
    /\ THREADS_LIMIT = ConfiguredLimit
    /\ serializer = "MergePostsSerializer"
    /\ data \in MergeRequests
    /\ link = <<>>
    /\ thread = [pk |-> 1]
    /\ posts \in MergeWorlds(Range(data))
    /\ threads = BaseThreads
    /\ conflict_valid = TRUE
    /\ field = Pending
    /\ result = Pending

NextMerge == ValidateMergePosts

SpecMerge == InitMerge /\ [][NextMerge]_vars

(***************************************************************************)
(* Resolving the link to the other thread.                                 *)
(***************************************************************************)
InitRef ==
    /\ POSTS_LIMIT = ConfiguredLimit
    /\ THREADS_LIMIT = ConfiguredLimit
    /\ serializer \in {"MovePostsSerializer", "MergeThreadSerializer"}
    /\ data = <<>>
    /\ link \in Links
    /\ thread \in {[pk |-> i] : i \in Ids}
    /\ posts = [i \in Ids |-> BasePost]
    /\ threads \in ThreadWorlds(serializer, Range(link) \cap Ids)
    /\ conflict_valid = TRUE
    /\ field = Pending
    /\ result = Pending

NextRef == ValidateNewThread \/ ValidateOtherThread

SpecRef == InitRef /\ [][NextRef]_vars

(***************************************************************************)
(* Vocabulary of the properties.                                           *)
(***************************************************************************)
Done == result.status # "pending"

Requested == Range(data)

\* the validators that take a list of ids and return the entities
ListValidators ==
    {"DeletePostsSerializer", "MergePostsSerializer", "MovePostsSerializer",
     "SplitPostsSerializer", "DeleteThreadsSerializer"}

\* the number of requested ids a validator counts: merge and move count the
\* distinct ids, the others the length of the list
Counted ==
    IF serializer \in {"MergePostsSerializer", "MovePostsSerializer"}
    THEN Cardinality(Requested)
    ELSE Len(data)

Limit == IF serializer \in PostSerializers THEN POSTS_LIMIT ELSE THREADS_LIMIT

\* the requested entities the data layer hands to the validator
Found ==
    IF serializer \in PostSerializers
    THEN {i \in Requested : posts[i].visible}
    ELSE {i \in Requested : threads[i].state = "visible"}

\* the permission checks the action requires of an entity, as the claim lists them
RequiredChecks(i) ==
    CASE serializer = "DeletePostsSerializer" ->
           IF posts[i].is_event THEN {"allow_delete_event"}
           ELSE {"allow_delete_best_answer", "allow_delete_post"}
      [] serializer = "MergePostsSerializer" -> {"allow_merge_post"}
      [] serializer = "MovePostsSerializer" -> {"allow_move_post"}
      [] serializer = "SplitPostsSerializer" -> {"allow_split_post"}
      [] serializer = "DeleteThreadsSerializer" -> {"allow_delete_thread"}
      [] serializer = "MergeThreadsSerializer" -> {"allow_merge_thread"}
      [] OTHER -> {}

DeniedChecks(i) ==
    IF serializer \in PostSerializers THEN posts[i].denies ELSE threads[i].denies

Permitted(i) == RequiredChecks(i) \cap DeniedChecks(i) = {}

\* C1: whenever the number of ids a batch validator counts exceeds its limit,
\* validation fails with the "no more than <limit>" error and the run fetched no
\* candidate and invoked no allow_* check; a request of exactly <limit> ids is
\* not rejected by the limit check.
C1_LimitBeforeAnyCheck ==
    Done =>
        /\ Counted > Limit =>
              /\ result.status = "error"
              /\ result.error.code = "limit"
              /\ result.calls = <<>>
        /\ Counted = Limit => result.error.code # "limit"

\* C1 witness: a request over the limit, all of whose ids are pairwise distinct,
\* was rejected
C1_Witness ==
    /\ Done
    /\ Cardinality(Requested) > Limit
    /\ result.error.code = "limit"

\* C2: whenever a batch validator returns successfully the returned entities have
\* pairwise distinct ids, the set of their ids equals the set of requested ids and
\* their count equals the number of distinct requested ids.
C2_ReturnedIsRequestedSet ==
    (Done /\ result.status = "ok") =>
        /\ \A i, j \in DOMAIN result.value :
              i # j => result.value[i] # result.value[j]
        /\ Range(result.value) = Requested
        /\ Len(result.value) = Cardinality(Requested)

\* C3: whenever a batch validator returns successfully every returned entity
\* passed each permission check the action requires, and each of those checks
\* was invoked on it; no request containing a found entity that one of its checks
\* denies succeeds, whatever its position.
C3_EveryReturnedEntityPermitted ==
    (Done /\ serializer \in ListValidators) =>
        /\ result.status = "ok" =>
              \A k \in DOMAIN result.value :
                  /\ Permitted(result.value[k])
                  /\ \A c \in RequiredChecks(result.value[k]) :
                        Call(c, result.value[k]) \in Range(result.calls)
        /\ (\E i \in Found : ~Permitted(i)) => result.status = "error"

\* C3 witness: two entities were returned, each after its checks
C3_Witness ==
    /\ Done
    /\ serializer \in ListValidators
    /\ result.status = "ok"
    /\ Len(result.value) >= 2

\* a batch within the size limit (merge: of at least two distinct ids) with an
\* id that does not exist or that the user may not see
C4_BatchWithMissingId ==
    /\ Done
    /\ serializer \in ListValidators
    /\ data # <<>>
    /\ Counted <= Limit
    /\ serializer = "MergePostsSerializer" => Cardinality(Requested) >= 2
    /\ Requested \ Found # {}

C4_Consistent(first, p) ==
    /\ posts[first].poster_id = posts[p].poster_id
    /\ posts[first].poster_id = None => posts[first].poster_name = posts[p].poster_name
    /\ ~(posts[first].is_first_post /\ posts[p].is_best_answer)
    /\ posts[first].is_first_post
          \/ /\ posts[first].is_hidden = posts[p].is_hidden
             /\ posts[first].is_unapproved = posts[p].is_unapproved

C4_FoundItemsPass ==
    /\ \A i \in Found : Permitted(i)
    /\ serializer = "MergePostsSerializer" =>
          \A p \in Found : \A first \in Found :
              (\A q \in Found : first <= q) /\ p # first => C4_Consistent(first, p)

Outcome(s, d) ==
    CASE s = "DeletePostsSerializer" -> DeletePostsValidatePosts(d)
      [] s = "MergePostsSerializer" -> MergePostsValidatePosts(d)
      [] s = "MovePostsSerializer" -> MovePostsValidatePosts(d)
      [] s = "SplitPostsSerializer" -> SplitPostsValidatePosts(d)
      [] s = "DeleteThreadsSerializer" -> DeleteThreadsValidateThreads(d)
      [] OTHER -> Pending

\* C5: the outcome of a batch validator depends only on the set of requested
\* ids: validating a list gives the same returned batch, or the same error with
\* the same entries, as validating its distinct ids once each in ascending order
\* (and so as any other list that repeats or reorders the same ids).
C5_OutcomeDependsOnIdSetOnly ==
    (Done /\ serializer \in ListValidators) =>
        LET canonical == Outcome(serializer, Ascending(Requested))
        IN  /\ result.status = canonical.status
            /\ result.value = canonical.value
            /\ result.error = canonical.error

\* authorship as the claim states it: the same poster_id and, for anonymous
\* posters, the same poster_name
C6_SameAuthor(p, q) ==
    /\ posts[p].poster_id = posts[q].poster_id
    /\ posts[p].poster_id = None => posts[p].poster_name = posts[q].poster_name

C6_AnyTwoDiffer == \E p, q \in Requested : ~C6_SameAuthor(p, q)

\* C6 (as claimed): a set of two or more visible, mergeable posts fails with
\* "Posts made by different users can't be merged" if any two posts differ in
\* poster_id, or are both anonymous with different names; a set whose posts all
\* share the author is not rejected by the authorship rule.
C6_DifferentAuthorsAuthorshipError ==
    (Done /\ serializer = "MergePostsSerializer") =>
        /\ C6_AnyTwoDiffer =>
              result.status = "error" /\ result.error.code = "authorship"
        /\ ~C6_AnyTwoDiffer => result.error.code # "authorship"

C6_Lowest == CHOOSE m \in Requested : \A q \in Requested : m <= q

\* a post below the first post whose author differs from the lowest post's breaks
\* the best-answer or the visibility rule against the lowest post
C6_EarlierRuleBroken ==
    \E k \in Requested :
        /\ k # C6_Lowest
        /\ \A j \in Requested : ~C6_SameAuthor(C6_Lowest, j) => k < j
        /\ \/ posts[C6_Lowest].is_first_post /\ posts[k].is_best_answer
           \/ /\ ~posts[C6_Lowest].is_first_post
              /\ \/ posts[C6_Lowest].is_hidden # posts[k].is_hidden
                 \/ posts[C6_Lowest].is_unapproved # posts[k].is_unapproved

\* C6 (amended): such a set with two posts of different authorship always fails
\* with a consistency error: the authorship error, unless a post with a lower id
\* than the first post whose author differs from the lowest-id post's already
\* breaks the best-answer or visibility rule, whose error is then raised; a set
\* whose posts all share the author never gets the authorship error.
C6_DifferentAuthorsRejected ==
    (Done /\ serializer = "MergePostsSerializer") =>
        /\ C6_AnyTwoDiffer =>
              /\ result.status = "error"
              /\ IF C6_EarlierRuleBroken
                 THEN result.error.code \in {"best_answer_first_post", "visibility"}
                 ELSE result.error.code = "authorship"
        /\ ~C6_AnyTwoDiffer => result.error.code # "authorship"

\* C6 witness: two anonymous posts with different names got the authorship error
C6_Witness ==
    /\ Done
    /\ serializer = "MergePostsSerializer"
    /\ result.error.code = "authorship"
    /\ \E p, q \in Requested :
          /\ posts[p].poster_id = None
          /\ posts[q].poster_id = None
          /\ posts[p].poster_name # posts[q].poster_name

C7_Denied == {t \in Found : "allow_delete_thread" \in threads[t].denies}

\* one entry per denied thread, in descending id order
C7_Expected ==
    LET order == Descending(C7_Denied)
    IN  [i \in DOMAIN order |->
            Item(order[i], TitleOf(order[i]), 0, "allow_delete_thread")]

C7_IsLoad(c) == c[1] = "viewmodel"

C7_Loads == SelectSeq(result.calls, C7_IsLoad)

\* C7: bulk thread delete processes the requested ids in descending id order;
\* when a requested thread exists and allow_delete_thread denies it, the call
\* fails with a details list holding exactly one entry (id, title, reason) for
\* each requested thread that was loaded and denied, in descending id order,
\* and no entry for a missing or an allowed thread; no batch is returned.
C7_OneEntryPerDeniedThread ==
    (/\ Done
     /\ serializer = "DeleteThreadsSerializer"
     /\ data # <<>>
     /\ Len(data) <= THREADS_LIMIT) =>
        /\ \A i, j \in DOMAIN C7_Loads : i < j => C7_Loads[i][2] >= C7_Loads[j][2]
        /\ C7_Denied # {} =>
              /\ result.status = "error"
              /\ result.error.code = "details"
              /\ result.error.items = C7_Expected

\* C7, for lists without a repeated id: the same statement
C7_OneEntryPerDeniedThreadNoRepeats ==
    Len(data) = Cardinality(Requested) => C7_OneEntryPerDeniedThread

\* the outcome the screening owes a requested id: 200 valid, 403, 404
C8_Class(t) ==
    IF threads[t].state = "visible"
    THEN IF "allow_merge_thread" \in threads[t].denies THEN 403 ELSE 200
    ELSE 404

C8_Expected ==
    LET order == Ascending({t \in Requested : C8_Class(t) # 200})
    IN  [i \in DOMAIN order |->
            Item(order[i], 0, C8_Class(order[i]),
                 IF C8_Class(order[i]) = 403 THEN "allow_merge_thread"
                 ELSE "not_found")]

\* C8: bulk thread-merge screening gives every distinct requested id exactly one
\* outcome: valid, one 403 entry (in the threads tree, visible, allow_merge_thread
\* denies) or one 404 entry (missing, outside the tree or invisible).  If there is
\* an entry the call fails with all entries sorted by ascending id and the
\* merge-conflict resolver does not run; otherwise the resolver runs on exactly
\* the requested threads.
C8_ScreeningOutcome ==
    (Done /\ serializer = "MergeThreadsSerializer" /\ field.status = "ok") =>
        IF C8_Expected # <<>>
        THEN /\ result.status = "error"
             /\ result.error.code = "merge"
             /\ result.error.items = C8_Expected
             /\ ~result.resolver
             /\ Call("MergeConflict", 0) \notin Range(result.calls)
        ELSE /\ result.resolver
             /\ conflict_valid =>
                   /\ result.status = "ok"
                   /\ Range(result.value) = Requested
                   /\ Len(result.value) = Cardinality(Requested)

\* C8 witness: one requested thread got a 403 entry and another a 404 entry
C8_Witness ==
    /\ Done
    /\ serializer = "MergeThreadsSerializer"
    /\ result.error.code = "merge"
    /\ \E i, j \in DOMAIN result.error.items :
          /\ result.error.items[i].status = 403
          /\ result.error.items[j].status = 404

C9_Id == GetThreadIdFromUrl(link)

\* C9: resolving the link to the other thread (move posts, merge thread): a link
\* holding the current thread's id fails with the self-reference error before
\* the target is loaded, whatever the user's permissions on it; a link holding
\* no id fails with "not a valid thread link"; a thread is returned only if it is
\* another thread, was loaded for the user and passed the destination check
\* (can_reply for move; allow_merge_thread and can_reply_thread for merge).
C9_ReferenceResolution ==
    (Done /\ serializer \in {"MovePostsSerializer", "MergeThreadSerializer"}) =>
        /\ C9_Id = thread.pk =>
              /\ result.status = "error"
              /\ result.error.code = "same_thread"
              /\ result.calls = <<>>
        /\ C9_Id = None =>
              result.status = "error" /\ result.error.code = "invalid_link"
        /\ result.status = "ok" =>
              /\ result.value = <<C9_Id>>
              /\ C9_Id # thread.pk
              /\ C9_Id \in Ids
              /\ threads[C9_Id].state = "visible"
              /\ Call("viewmodel", C9_Id) \in Range(result.calls)
              /\ threads[C9_Id].can_reply
              /\ serializer = "MergeThreadSerializer" =>
                    "allow_merge_thread" \notin threads[C9_Id].denies

\* C9 witness: a link to the current thread, which the user may not even merge
\* or reply to, was rejected as a self-reference
C9_Witness ==
    /\ Done
    /\ C9_Id = thread.pk
    /\ ~threads[C9_Id].can_reply
    /\ "allow_merge_thread" \in threads[C9_Id].denies
    /\ result.error.code = "same_thread"

\* C10: in every successfully validated merge batch all posts other than the
\* thread's first post share is_hidden and is_unapproved, also when the first
\* post is part of the batch.
C10_NonFirstPostsShareVisibility ==
    (Done /\ serializer = "MergePostsSerializer" /\ result.status = "ok") =>
        \A p, q \in Range(result.value) :
            (~posts[p].is_first_post /\ ~posts[q].is_first_post) =>
                /\ posts[p].is_hidden = posts[q].is_hidden
                /\ posts[p].is_unapproved = posts[q].is_unapproved

\* C11: no successfully validated merge batch contains both the thread's first
\* post and a post marked best answer, wherever the first post falls in the
\* ascending-id order.
C11_NoBestAnswerWithFirstPost ==
    (Done /\ serializer = "MergePostsSerializer" /\ result.status = "ok") =>
        ~(\E p, q \in Range(result.value) :
              posts[p].is_first_post /\ posts[q].is_best_answer)

\* C11, for requests whose lowest id is the thread's first post: the same
\* statement
C11_NoBestAnswerWithLowestFirstPost ==
    (\A p \in Requested : posts[p].is_first_post => \A q \in Requested : p <= q)
        => C11_NoBestAnswerWithFirstPost

\* C11, last part, as a state that is reached: a best-answer post was merged
\* with other posts, the first post not being in the set
C11_BestAnswerMergedWithoutFirstPost ==
    /\ Done
    /\ serializer = "MergePostsSerializer"
    /\ result.status = "ok"
    /\ \E q \in Range(result.value) : posts[q].is_best_answer
    /\ \A p \in Range(result.value) : ~posts[p].is_first_post

====
